---- MODULE Spec2Model ----
(***************************************************************************)
(* A model of rs-esp32-aichat: the display state machine in its two        *)
(* builds (ChatApp in src/app.rs, driven by DisplayActor, measures the     *)
(* Dizzy dwell in ticks; Display in src/display.rs measures it with the    *)
(* 32-bit microsecond clock), the motion classifier (MotionDetector) and   *)
(* the event bus.                                                          *)
(***************************************************************************)
EXTENDS Integers, Sequences, FiniteSets, TLC

VARIABLES
    build,      \* which display implementation is running: "ChatApp" or "Display"
    disp,       \* the display object: state, state_timer, dizziness_start_time, graphics calls
    now,        \* esp_timer_get_time() since boot (i64, never wraps in practice), in units of 64 us
    last,       \* the last operation called on the display and the state it was called in
    entered_at, \* the clock (not truncated) when the display last changed state
    which,      \* which classifier is running: "MotionDetector" (motion_detector.rs) or "Legacy" (mod.rs)
    det,        \* the classifier object
    result,     \* what the last detect_motion call returned ("None" before the first)
    fed,        \* the sample of the last detect_motion call (NoSample before the first)
    track,      \* what the samples fed since construction or reset() have been like
    cfg,        \* the last configuring call on the classifier (reset() included) and its outcome
    bus,        \* the event bus: the channel's queue, its receiver, and what was sent and received
    motion,     \* the motion actor: its thread, last_state, last_sent_time and what its last cycle did
    wifi,       \* the wifi actor and its manager: the thread, the two channels, the radio
    consumer,   \* the display actor and its manager: the thread, its channel, what it handled
    audio       \* the AudioBuffer, the call last made on it, and the samples accepted and not yet read

uiVars == <<build, disp, now, last, entered_at>>

detVars == <<which, det, result, fed, track, cfg>>

busVars == <<bus>>

actorVars == <<motion, wifi, consumer>>

audioVars == <<audio>>

vars == <<build, disp, now, last, entered_at, which, det, result, fed, track, cfg, bus, motion, wifi, consumer,
          audio>>

(***************************************************************************)
(* Bounds of the model.                                                    *)
(***************************************************************************)
\* ticks a ChatApp state is followed for (the Error timeout needs 151)
MaxTicks == 153
\* ticks a Display state is followed for (its dwell is measured on the clock)
MaxTimedTicks == 3
\* the clock is followed up to this many units of 64 us (a little over one wrap of the u32)
MaxNow == 67200000
\* send calls made on the bus, all producers together
MaxSent == 4
\* commands the wifi manager is given
MaxCommands == 2
\* times the radio link comes or goes by itself
MaxFlips == 1
\* polling cycles the motion actor is followed for (a heartbeat takes 10)
MaxPolls == 13
\* seconds after a 2^32 boundary within which the clock is sampled second by second
MaxWindow == 5

(***************************************************************************)
(* Program constants.                                                      *)
(***************************************************************************)
\* app.rs:272  const MIN_DIZZINESS_DURATION: u32 = 60
MIN_DIZZINESS_DURATION == 60
\* display.rs:222  const MIN_DIZZINESS_DURATION_US: u32 = 3_000_000
MIN_DIZZINESS_DURATION_US == 3000000
\* display.rs:71 / app.rs:209  if self.state_timer > 150
ERROR_TIMEOUT_TICKS == 150
\* The clock is read in whole units of 64 us: 2^32 us are 2^26 units, and the
\* 3,000,000 us of the dwell are 46,875 units, so that the u32 arithmetic of
\* display.rs is exact on the unit counts.
UnitUs == 2 ^ 6
\* the width of the u32 timestamps of display.rs, in units
U32 == 2 ^ 26
Second == (1000 * 1000) \div UnitUs
\* the clock advances by a second, or by three seconds less than a full 2^32 wrap
ClockSteps == {Second, U32 - 3 * Second}

(***************************************************************************)
(* DisplayState / AppState                                                 *)
(***************************************************************************)
NoMsg == ""
Msgs == {"sensor", "wifi"}

St(tag) == [tag |-> tag, msg |-> NoMsg]
Welcome == St("Welcome")
Main == St("Main")
Settings == St("Settings")
Thinking == St("Thinking")
Dizziness == St("Dizziness")
Tilting == St("Tilting")
Error(m) == [tag |-> "Error", msg |-> m]

DisplayState == {Welcome, Main, Settings, Thinking, Dizziness, Tilting} \cup {Error(m) : m \in Msgs}

MotionState == {"Still", "Shaking", "Tilting"}

\* the graphics calls of one handler are counted from zero
Fresh(d) == [d EXCEPT !.clears = 0, !.draws = 0, !.dots = 0]

(***************************************************************************)
(* Display (src/display.rs); ChatApp (src/app.rs) has the same text for    *)
(* transition_to, the enter_* methods other than enter_dizziness, and      *)
(* update.                                                                 *)
(***************************************************************************)
Display_new ==
    [state |-> Main, state_timer |-> 0, dizziness_start_time |-> 0, clears |-> 0, draws |-> 0,
     dots |-> 0]

ChatApp_new ==
    [state |-> Welcome, state_timer |-> 0, dizziness_start_time |-> 0, clears |-> 0, draws |-> 0,
     dots |-> 0]

\* a mutant of transition_to: the equality check is dropped
transition_to_always(d, new_state) ==
    [d EXCEPT !.state = new_state, !.state_timer = 0, !.clears = @ + 1]

transition_to(d, new_state) ==
    IF d.state = new_state
    THEN d
    ELSE [d EXCEPT !.state = new_state, !.state_timer = 0, !.clears = @ + 1]

enter_welcome(d) == transition_to(d, Welcome)
enter_main(d) == transition_to(d, Main)
enter_settings(d) == transition_to(d, Settings)
enter_thinking(d) == transition_to(d, Thinking)

\* a mutant of enter_error: a fault in Dizziness is dropped
enter_error_not_dizzy(d, error_msg) ==
    IF d.state = Dizziness THEN d ELSE transition_to(d, Error(error_msg))

enter_error(d, error_msg) == transition_to(d, Error(error_msg))

\* esp_timer_get_time() as u32
TimeU32(t) == t % U32

\* a.wrapping_sub(b) on u32
wrapping_sub(a, b) == (a - b + U32) % U32

enter_dizziness(d, t) ==
    IF d.state = Dizziness
    THEN d
    ELSE transition_to([d EXCEPT !.dizziness_start_time = TimeU32(t)], Dizziness)

ChatApp_enter_dizziness(d) ==
    IF d.state = Dizziness
    THEN d
    ELSE [transition_to([d EXCEPT !.dizziness_start_time = d.state_timer], Dizziness)
            EXCEPT !.dizziness_start_time = 0]

\* a Tilted that takes over from Dizzy
enter_tilting_over_dizzy(d) == transition_to(d, Tilting)

enter_tilting(d) ==
    IF d.state = Dizziness THEN d ELSE transition_to(d, Tilting)

can_exit_dizziness(d, t) ==
    IF d.state # Dizziness
    THEN FALSE
    ELSE wrapping_sub(TimeU32(t), d.dizziness_start_time) >= MIN_DIZZINESS_DURATION_US \div UnitUs

ChatApp_can_exit_dizziness(d) ==
    IF d.state # Dizziness
    THEN FALSE
    ELSE d.state_timer >= MIN_DIZZINESS_DURATION

exit_diszziness(d, t) ==
    IF can_exit_dizziness(d, t) THEN enter_main(d) ELSE d

ChatApp_exit_diszziness(d) ==
    IF ChatApp_can_exit_dizziness(d) THEN enter_main(d) ELSE d

back(d, t) ==
    CASE d.state = Welcome -> enter_main(d)
      [] d.state = Dizziness -> exit_diszziness(d, t)
      [] d.state = Tilting -> enter_main(d)
      [] OTHER -> d

ChatApp_back(d) ==
    CASE d.state = Welcome -> enter_main(d)
      [] d.state = Dizziness ->
            IF ChatApp_can_exit_dizziness(d) THEN ChatApp_exit_diszziness(d) ELSE d
      [] d.state = Tilting -> enter_main(d)
      [] OTHER -> d

\* one tick: the timer advances, the state's screen is drawn, Error times out
\* a loading animation at the pace of the Dizzy text: three phases of five ticks
thinking_draw_fast(state_timer) == (state_timer \div 5) % 3

\* thinking::draw, ChatApp::update_thinking: the number of dots of the loading animation
thinking_draw(state_timer) == (state_timer \div 10) % 4

\* the dots that update() draws in state s at timer value t (none but in Thinking)
DrawnDots(s, t) == IF s = Thinking THEN thinking_draw(t) ELSE 0

\* a mutant of update: the screen is cleared before every redraw
update_clearing(d) ==
    LET d1 == [d EXCEPT !.state_timer = @ + 1, !.clears = @ + 1, !.draws = @ + 1,
                        !.dots = DrawnDots(d.state, d.state_timer + 1)]
    IN  IF d1.state.tag = "Error" /\ d1.state_timer > ERROR_TIMEOUT_TICKS
        THEN enter_welcome(d1)
        ELSE d1

update(d) ==
    LET d1 == [d EXCEPT !.state_timer = @ + 1, !.draws = @ + 1,
                        !.dots = DrawnDots(d.state, d.state_timer + 1)]
    IN  IF d1.state.tag = "Error" /\ d1.state_timer > ERROR_TIMEOUT_TICKS
        THEN enter_welcome(d1)
        ELSE d1

\* a dispatch that leaves Tilted only on "back"
on_motion_still_ignored(d, m, t) ==
    CASE m = "Shaking" -> enter_dizziness(d, t)
      [] m = "Still" -> IF d.state = Tilting THEN d ELSE back(d, t)
      [] m = "Tilting" -> enter_tilting(d)

on_motion(d, m, t) ==
    CASE m = "Shaking" -> enter_dizziness(d, t)
      [] m = "Still" -> back(d, t)
      [] m = "Tilting" -> enter_tilting(d)

\* DisplayActor::handle_event: the motion event, then one update of the ChatApp
handle_event(d, m) ==
    LET d1 == CASE m = "Shaking" -> ChatApp_enter_dizziness(d)
                [] m = "Still" -> ChatApp_back(d)
                [] m = "Tilting" -> enter_tilting(d)
    IN  update(d1)

(***************************************************************************)
(* MotionConfig (src/peripherals/qmi8658/motion_detector.rs) and the       *)
(* literals of the older MotionDetector of src/peripherals/qmi8658/mod.rs. *)
(***************************************************************************)
SHAKE_COUNT_THRESHOLD == 12
STABLE_COUNT_THRESHOLD == 10
DEFAULT_ACCEL_THRESHOLD == 800
DEFAULT_GYRO_THRESHOLD == 120
DEFAULT_TILT_THRESHOLD == 45
MIN_VALID_ACCEL_THRESHOLD == 10
MAX_TILT_ANGLE == 90
LEGACY_ACCEL_THRESHOLD == 300
LEGACY_GYRO_THRESHOLD == 50
LEGACY_SHAKE_COUNT == 5
LEGACY_STABLE_COUNT == 10

\* counters of the classifier are followed up to this value
MaxCount == 14
\* samples counted by a detector that is being reconfigured
MaxConfigCount == 2
\* on_motion calls made on the display actor's manager
MaxMotionSends == 4
\* cycles of gentle handling before the shaking starts
MaxGentle == 100
\* consecutive samples above both thresholds that are injected
MaxRun == 15

(***************************************************************************)
(* SensorData: accelerations in mg, angular rates in degrees per second.   *)
(* The samples are whole numbers whose vector magnitudes are whole numbers *)
(* too, so that the f32 arithmetic of the classifier is exact on them.     *)
(***************************************************************************)
Sample(ax, ay, az, gx, gy, gz) ==
    [accel_x |-> ax, accel_y |-> ay, accel_z |-> az, gyro_x |-> gx, gyro_y |-> gy, gyro_z |-> gz]

Samples ==
    { Sample(0, 0, 1000, 0, 0, 0),        \* at rest, flat
      Sample(1000, 0, 0, 0, 0, 0),        \* at rest, on its side
      Sample(0, 0, 2000, 0, 0, 0),        \* a jolt without rotation
      Sample(0, 0, 1000, 0, 200, 0),      \* rotating, 1 g
      Sample(0, 0, 2000, 0, 200, 0),      \* rotating, 2 g
      Sample(0, 0, -1000, 0, -200, 0),    \* face down, rotating the other way, 1 g
      Sample(0, 0, -2000, 0, -200, 0),    \* face down, rotating the other way, 2 g
      Sample(0, 0, 0, 0, 200, 0) }        \* free fall, rotating

NoSample == Sample(0, 0, 0, 0, 0, 0)

Abs(x) == IF x < 0 THEN -x ELSE x

\* f32::NAN as a threshold value; every other f32 of the model is an integer
NaN == -(2 ^ 30)

\* the f32 comparisons <, <= and >: false when either side is NaN
Lt(a, b) == a # NaN /\ b # NaN /\ a < b

Le(a, b) == a # NaN /\ b # NaN /\ a <= b

Gt(a, b) == a # NaN /\ b # NaN /\ a > b

RECURSIVE SqrtBetween(_, _, _)
\* the largest r in lo..hi with r * r <= n
SqrtBetween(n, lo, hi) ==
    IF lo >= hi
    THEN lo
    ELSE LET mid == (lo + hi + 1) \div 2
         IN  IF mid * mid <= n THEN SqrtBetween(n, mid, hi) ELSE SqrtBetween(n, lo, mid - 1)

\* (x * x + y * y + z * z).sqrt()
calculate_magnitude(x, y, z) == SqrtBetween(x * x + y * y + z * z, 0, 2 ^ 12)

\* tilt_angle > threshold, for acos(|az| / magnitude) in degrees: the angle is
\* above 30, 45, 60 degrees when cos^2 is below 3/4, 2/4, 1/4, and never
\* above 90
Cos2x4(threshold) ==
    CASE threshold = 30 -> 3
      [] threshold = 45 -> 2
      [] threshold = 60 -> 1
      [] threshold = 90 -> 0

calculate_tilt_angle_above(ax, ay, az, threshold) ==
    IF threshold # NaN /\ calculate_magnitude(ax, ay, az) > MIN_VALID_ACCEL_THRESHOLD
    THEN 4 * az * az < Cos2x4(threshold) * (ax * ax + ay * ay + az * az)
    ELSE FALSE

\* (v * 1000.0) as u32: a negative value becomes 0
MilliU32(v) == IF v <= 0 THEN 0 ELSE v * 1000

RECURSIVE BitOr(_, _)
BitOr(a, b) ==
    IF a = 0 THEN b
    ELSE IF b = 0 THEN a
    ELSE (IF a % 2 = 1 \/ b % 2 = 1 THEN 1 ELSE 0) + 2 * BitOr(a \div 2, b \div 2)

\* byte i of (v as u64) << (8 * shift)
ShiftedByte(v, shift, i) ==
    IF i < shift \/ i > shift + 3 THEN 0 ELSE (v \div (256 ^ (i - shift))) % 256

\* the u64 fingerprint of a sample, as its 8 bytes (byte 0 the lowest): the six
\* u32 values are shifted by 40, 32, 24, 16, 8 and 0 bits and or-ed
calculate_data_hash(data) ==
    [i \in 0..7 |->
        BitOr(ShiftedByte(MilliU32(data.accel_x), 5, i),
        BitOr(ShiftedByte(MilliU32(data.accel_y), 4, i),
        BitOr(ShiftedByte(MilliU32(data.accel_z), 3, i),
        BitOr(ShiftedByte(MilliU32(data.gyro_x), 2, i),
        BitOr(ShiftedByte(MilliU32(data.gyro_y), 1, i),
              ShiftedByte(MilliU32(data.gyro_z), 0, i))))))]

ZeroHash == [i \in 0..7 |-> 0]

\* Option<CachedDetectionResult>::None
NoCache ==
    [some |-> FALSE, motion_state |-> "Still", accel_magnitude |-> 0, gyro_magnitude |-> 0,
     is_shaking |-> FALSE, is_tilting |-> FALSE]

MotionDetector_new ==
    [accel_threshold |-> DEFAULT_ACCEL_THRESHOLD,
     gyro_threshold |-> DEFAULT_GYRO_THRESHOLD,
     tilt_threshold |-> DEFAULT_TILT_THRESHOLD,
     prev_accel_magnitude |-> 0,
     shake_count |-> 0,
     stable_count |-> 0,
     cached_result |-> NoCache,
     last_sensor_data_hash |-> ZeroHash]

\* the detector of mod.rs keeps no cache: the two cache fields stay as they are
Legacy_new ==
    [accel_threshold |-> LEGACY_ACCEL_THRESHOLD,
     gyro_threshold |-> LEGACY_GYRO_THRESHOLD,
     tilt_threshold |-> DEFAULT_TILT_THRESHOLD,
     prev_accel_magnitude |-> 0,
     shake_count |-> 0,
     stable_count |-> 0,
     cached_result |-> NoCache,
     last_sensor_data_hash |-> ZeroHash]

update_state_machine(d, is_shaking, is_tilting) ==
    LET d1 == IF is_shaking
              THEN [d EXCEPT !.shake_count = @ + 1, !.stable_count = 0]
              ELSE [d EXCEPT !.stable_count = @ + 1,
                             !.shake_count = IF d.stable_count + 1 >= STABLE_COUNT_THRESHOLD
                                             THEN 0 ELSE @]
    IN  [d |-> d1,
         motion_state |->
            IF is_shaking /\ d1.shake_count >= SHAKE_COUNT_THRESHOLD THEN "Shaking"
            ELSE IF is_tilting THEN "Tilting"
            ELSE "Still"]

\* let accel_change = if self.prev_accel_magnitude > 0.0 { .. } else { 0.0 }
accel_change(d, accel_magnitude) ==
    IF d.prev_accel_magnitude > 0
    THEN Abs(accel_magnitude - d.prev_accel_magnitude)
    ELSE 0

calculate_motion_state(d, data) ==
    LET accel_magnitude == calculate_magnitude(data.accel_x, data.accel_y, data.accel_z)
        gyro_magnitude == calculate_magnitude(data.gyro_x, data.gyro_y, data.gyro_z)
        is_shaking == /\ Gt(accel_change(d, accel_magnitude), d.accel_threshold)
                      /\ Gt(gyro_magnitude, d.gyro_threshold)
        is_tilting == calculate_tilt_angle_above(data.accel_x, data.accel_y, data.accel_z,
                                                 d.tilt_threshold)
        sm == update_state_machine([d EXCEPT !.prev_accel_magnitude = accel_magnitude],
                                   is_shaking, is_tilting)
    IN  [d |-> sm.d,
         r |-> [some |-> TRUE, motion_state |-> sm.motion_state,
                accel_magnitude |-> accel_magnitude, gyro_magnitude |-> gyro_magnitude,
                is_shaking |-> is_shaking, is_tilting |-> is_tilting]]

\* a mutant of detect_motion: the cache is never consulted
detect_motion_uncached(d, data) ==
    LET c == calculate_motion_state(d, data)
    IN  [d |-> [c.d EXCEPT !.cached_result = c.r,
                           !.last_sensor_data_hash = calculate_data_hash(data)],
         ret |-> c.r.motion_state]

detect_motion(d, data) ==
    LET data_hash == calculate_data_hash(data)
    IN  IF d.cached_result.some /\ data_hash = d.last_sensor_data_hash
        THEN [d |-> d, ret |-> d.cached_result.motion_state]
        ELSE LET c == calculate_motion_state(d, data)
             IN  [d |-> [c.d EXCEPT !.cached_result = c.r, !.last_sensor_data_hash = data_hash],
                  ret |-> c.r.motion_state]

\* MotionDetector::with_config: ok is FALSE for Err, and then there is no detector
with_config(accel_threshold, gyro_threshold, tilt_threshold) ==
    IF Lt(accel_threshold, MIN_VALID_ACCEL_THRESHOLD) THEN [ok |-> FALSE, d |-> MotionDetector_new]
    ELSE IF Le(gyro_threshold, 0) THEN [ok |-> FALSE, d |-> MotionDetector_new]
    ELSE IF Le(tilt_threshold, 0) \/ Gt(tilt_threshold, MAX_TILT_ANGLE)
         THEN [ok |-> FALSE, d |-> MotionDetector_new]
    ELSE [ok |-> TRUE,
          d |-> [MotionDetector_new EXCEPT !.accel_threshold = accel_threshold,
                                           !.gyro_threshold = gyro_threshold,
                                           !.tilt_threshold = tilt_threshold]]

invalidate_cache(d) == [d EXCEPT !.cached_result = NoCache, !.last_sensor_data_hash = ZeroHash]

set_thresholds(d, accel_threshold, gyro_threshold) ==
    IF Lt(accel_threshold, MIN_VALID_ACCEL_THRESHOLD) THEN [ok |-> FALSE, d |-> d]
    ELSE IF Le(gyro_threshold, 0) THEN [ok |-> FALSE, d |-> d]
    ELSE [ok |-> TRUE,
          d |-> invalidate_cache([d EXCEPT !.accel_threshold = accel_threshold,
                                           !.gyro_threshold = gyro_threshold])]

set_tilt_threshold(d, tilt_threshold) ==
    IF Le(tilt_threshold, 0) \/ Gt(tilt_threshold, MAX_TILT_ANGLE) THEN [ok |-> FALSE, d |-> d]
    ELSE [ok |-> TRUE, d |-> invalidate_cache([d EXCEPT !.tilt_threshold = tilt_threshold])]

\* MotionDetector::set_thresholds of mod.rs: no check, no result
legacy_set_thresholds(d, accel_threshold, gyro_threshold) ==
    [ok |-> TRUE,
     d |-> [d EXCEPT !.accel_threshold = accel_threshold, !.gyro_threshold = gyro_threshold]]

\* a mutant of reset: the cached result is kept
reset_keeps_cache(d) ==
    [d EXCEPT !.prev_accel_magnitude = 0, !.shake_count = 0, !.stable_count = 0]

reset(d) ==
    invalidate_cache([d EXCEPT !.prev_accel_magnitude = 0, !.shake_count = 0, !.stable_count = 0])

\* MotionDetector::detect_motion of mod.rs
legacy_detect_motion(d, data) ==
    LET sq == data.accel_x * data.accel_x + data.accel_y * data.accel_y
                + data.accel_z * data.accel_z
        accel_magnitude == calculate_magnitude(data.accel_x, data.accel_y, data.accel_z)
        gyro_magnitude == calculate_magnitude(data.gyro_x, data.gyro_y, data.gyro_z)
        is_shaking == \/ Gt(accel_change(d, accel_magnitude), d.accel_threshold)
                      \/ Gt(gyro_magnitude, d.gyro_threshold)
        is_tilting == IF accel_magnitude > 0
                      THEN 4 * data.accel_z * data.accel_z < Cos2x4(d.tilt_threshold) * sq
                      ELSE FALSE
        d1 == [d EXCEPT !.prev_accel_magnitude = accel_magnitude]
        d2 == IF is_shaking
              THEN [d1 EXCEPT !.shake_count = @ + 1, !.stable_count = 0]
              ELSE [d1 EXCEPT !.stable_count = @ + 1,
                              !.shake_count = IF d1.stable_count + 1 >= LEGACY_STABLE_COUNT
                                              THEN 0 ELSE @]
    IN  [d |-> d2,
         ret |-> IF is_shaking /\ d2.shake_count >= LEGACY_SHAKE_COUNT THEN "Shaking"
                 ELSE IF is_tilting THEN "Tilting"
                 ELSE "Still"]

(***************************************************************************)
(* What the samples fed since construction or reset() have been like,      *)
(* judged on the samples themselves: a sample qualifies when its           *)
(* acceleration magnitude differs from that of the sample before it by     *)
(* more than the acceleration threshold (the first sample has no sample    *)
(* before it) and its angular rate is above the angular-rate threshold.    *)
(***************************************************************************)
TrackInit ==
    [prev_mag |-> -1,        \* the magnitude of the sample before, -1 when there is none
     pat |-> "pre",          \* "pre": no qualifying sample yet; "run1": in the first run of
                             \* qualifying samples; "gap": one non-qualifying sample after a
                             \* first run of SHAKE_COUNT_THRESHOLD - 1; "run2": in the run
                             \* after that gap; "off": anything else
     k |-> 0,                \* the length of the run
     ever_accel |-> FALSE,   \* some sample's acceleration change was above the threshold
     ever_gyro |-> FALSE,    \* some sample's angular rate was above the threshold
     rep |-> FALSE]          \* the last sample was the sample before it, fed again

AccelDelta(t, data) ==
    IF t.prev_mag = -1
    THEN 0
    ELSE Abs(calculate_magnitude(data.accel_x, data.accel_y, data.accel_z) - t.prev_mag)

AccelAbove(t, d, data) == AccelDelta(t, data) > d.accel_threshold

GyroAbove(d, data) ==
    calculate_magnitude(data.gyro_x, data.gyro_y, data.gyro_z) > d.gyro_threshold

Qualifying(t, d, data) == AccelAbove(t, d, data) /\ GyroAbove(d, data)

Tracked(t, d, data, prev) ==
    LET q == Qualifying(t, d, data)
        n == SHAKE_COUNT_THRESHOLD
        next == CASE t.pat = "pre" -> IF q THEN <<"run1", 1>> ELSE <<"pre", 0>>
                  [] t.pat = "run1" ->
                        IF q THEN <<"run1", t.k + 1>>
                        ELSE IF t.k = n - 1 THEN <<"gap", 0>> ELSE <<"off", 0>>
                  [] t.pat = "gap" -> IF q THEN <<"run2", 1>> ELSE <<"off", 0>>
                  [] t.pat = "run2" -> IF q /\ t.k < n - 1 THEN <<"run2", t.k + 1>> ELSE <<"off", 0>>
                  [] OTHER -> <<"off", 0>>
    IN  [prev_mag |-> calculate_magnitude(data.accel_x, data.accel_y, data.accel_z),
         pat |-> next[1],
         k |-> next[2],
         ever_accel |-> t.ever_accel \/ AccelAbove(t, d, data),
         ever_gyro |-> t.ever_gyro \/ GyroAbove(d, data),
         rep |-> data = prev]

(***************************************************************************)
(* The event bus (src/events.rs): one std::sync::mpsc channel.  Every      *)
(* actor holds a clone of the sender; the bus keeps the only receiver.     *)
(***************************************************************************)
Producers == {"Motion", "Wifi", "System"}

\* the payloads each send_* helper is called with
Payloads(p) ==
    CASE p = "Motion" -> {"Still", "Shaking"}
      [] p = "Wifi"   -> {"Disconnected"}
      [] p = "System" -> {"Shutdown"}

\* AppEvent::Motion(..), AppEvent::Wifi(..), AppEvent::System(..); id numbers
\* the events of one producer in the order of its send calls
AppEvent(p, payload, id) == [kind |-> p, payload |-> payload, id |-> id]

\* EventBus::new(): an empty channel, the receiver alive, no sender handed out yet
\* (senders: the clone each actor holds, "none", "held" or "dropped"; the bus keeps
\* the original sender itself)
EventBus_new ==
    [ queue    |-> << >>,
      receiver |-> TRUE,
      senders  |-> [p \in Producers |-> "none"],
      sent     |-> [p \in Producers |-> << >>],
      calls    |-> [p \in Producers |-> 0],
      received |-> << >>,
      recv     |-> "None" ]

\* a channel that delivers the newest event first
send_lifo(b, p, payload) ==
    LET e == AppEvent(p, payload, b.calls[p] + 1)
    IN  IF b.receiver
        THEN [b EXCEPT !.queue = <<e>> \o @, !.sent[p] = Append(@, e), !.calls[p] = @ + 1]
        ELSE [b EXCEPT !.calls[p] = @ + 1]

\* send_motion_event / send_wifi_event / send_system_event: sender.send(AppEvent::X(payload)),
\* Ok when the receiver is alive (the event is enqueued), Err(SendError) when it was dropped
send(b, p, payload) ==
    LET e == AppEvent(p, payload, b.calls[p] + 1)
    IN  IF b.receiver
        THEN [b EXCEPT !.queue = Append(@, e), !.sent[p] = Append(@, e), !.calls[p] = @ + 1]
        ELSE [b EXCEPT !.calls[p] = @ + 1]

\* the send calls made so far
SendCalls(b) == b.calls["Motion"] + b.calls["Wifi"] + b.calls["System"]

\* EventBus::try_recv(): the oldest queued event, or Err(Empty)
try_recv(b) ==
    IF b.queue # << >>
    THEN [b EXCEPT !.queue = Tail(@), !.received = Append(@, Head(b.queue)), !.recv = "Ok"]
    ELSE [b EXCEPT !.recv = "Empty"]

\* EventBus::get_sender(): a clone of the bus's sender, handed to actor p
get_sender(b, p) == [b EXCEPT !.senders[p] = "held"]

\* the senders of the channel that are alive: the clones held, and the one in the bus
LiveSenders(b) == Cardinality({p \in Producers : b.senders[p] = "held"}) + 1

\* EventBus::recv(): the oldest queued event; with an empty queue Err(RecvError) when
\* no sender is left, and the calling thread blocked otherwise
recv(b) ==
    IF b.queue # << >>
    THEN [b EXCEPT !.queue = Tail(@), !.received = Append(@, Head(b.queue)), !.recv = "Ok"]
    ELSE IF LiveSenders(b) = 0
         THEN [b EXCEPT !.recv = "Disconnected"]
         ELSE [b EXCEPT !.recv = "Blocked"]

BusIdle == bus = EventBus_new

(***************************************************************************)
(* The motion actor (src/actors/motion.rs): one thread that reads the      *)
(* sensor, classifies the sample and publishes on the event bus.           *)
(***************************************************************************)
HEARTBEAT_INTERVAL_US == 5000000

POLL_DELAY_MS == 500

\* one turn of the loop: FreeRtos::delay_ms(500) and the time the read takes,
\* in units of the clock (rounded up)
PollPeriod == (POLL_DELAY_MS * 1000) \div UnitUs + 1

\* the samples the sensor gives the actor: flat and at rest, on its side and at rest
ActorSamples == {Sample(0, 0, 1000, 0, 0, 0), Sample(1000, 0, 0, 0, 0, 0)}

\* before MotionActorManager::new: no actor, no thread
NoMotionActor ==
    [ thread         |-> "none",
      last_state     |-> "None",
      last_sent_time |-> 0,
      read           |-> "None",    \* the read of the last cycle: "Ok" or "Err"
      send           |-> "None",    \* the send of the last cycle: "Ok", "Err", or "None" when none was made
      polls          |-> 0,         \* cycles made
      polled_at      |-> 0,         \* the clock of the last cycle
      sent_at        |-> -1,        \* the clock of the last event published
      errs           |-> 0,         \* read errors in a row up to the last cycle
      after_errs     |-> 0 ]        \* read errors in a row just before the last cycle

\* MotionActor::new and thread::spawn(actor.run())
MotionActor_new == [NoMotionActor EXCEPT !.thread = "running"]

\* MotionActorManager::new when QMI8658Driver::new fails: `?` returns the error to the
\* caller, no thread is spawned
MotionActor_failed == [NoMotionActor EXCEPT !.thread = "failed"]

\* a publish decision that knows no heartbeat
should_send_on_change(a, motion_state, time) == a.last_state # motion_state

\* a publish decision that publishes in every cycle
should_send_always(a, motion_state, time) == TRUE

\* should_send: the state differs from last_state, or the heartbeat interval has passed
should_send(a, motion_state, time) ==
    \/ a.last_state # motion_state
    \/ time - a.last_sent_time >= HEARTBEAT_INTERVAL_US \div UnitUs

MotionIdle == motion = NoMotionActor

(***************************************************************************)
(* The wifi actor and its manager (src/actors/wifi.rs): a command channel  *)
(* into the actor's thread and an event channel out of it.                 *)
(***************************************************************************)
WifiCommand == {"Connect", "Disconnect", "GetStatus", "Scan"}

\* a WifiEvent; cmd is the number of the command it was sent for (0: for none)
WifiEvent(kind, arg, cmd) == [kind |-> kind, arg |-> arg, cmd |-> cmd]

\* before WifiActorManager::new
NoWifiActor ==
    [ thread         |-> "none",          \* "none", "spawned", "running", "failed" or "exited"
      manager        |-> FALSE,           \* the manager (command_sender and event_receiver) exists
      commands       |-> << >>,           \* the command channel
      events         |-> << >>,           \* the event channel
      current_status |-> "Disconnected",
      connected      |-> FALSE,           \* wifi_manager.is_connected()
      accepted       |-> 0,               \* commands the manager's send returned Ok for
      asked          |-> << >>,           \* those commands, in the order of their numbers
      handled        |-> 0,               \* commands handle_command has returned from
      emitted        |-> << >>,           \* the events put on the event channel so far
      flips          |-> 0 ]

\* WifiActorManager::new: the two channels and the thread; the actor is built in the thread
WifiActorManager_new == [NoWifiActor EXCEPT !.thread = "spawned", !.manager = TRUE]

\* self.event_sender.send(event), its result discarded
event_send(w, kind, arg, cmd) ==
    IF w.manager
    THEN [w EXCEPT !.events = Append(@, WifiEvent(kind, arg, cmd)),
                   !.emitted = Append(@, WifiEvent(kind, arg, cmd))]
    ELSE w

\* WifiActor::new in the thread: Ok and the loop starts, or the error is reported as a
\* status event and the thread ends, the command receiver with it
WifiActor_new(w, init_ok) ==
    IF init_ok
    THEN [w EXCEPT !.thread = "running"]
    ELSE [event_send(w, "StatusUpdate", "Error", 0) EXCEPT !.thread = "failed", !.commands = << >>]

\* is_connected() when a scan restores the status
RestoredStatus(w) == IF w.connected THEN "Connected" ELSE "Disconnected"

\* WifiActor::handle_command; op_ok: the radio operation succeeds
wifi_handle_command(w, c, op_ok) ==
    LET id == c.id
        done ==
          CASE c.cmd = "Connect" ->
                 LET w1 == event_send([w EXCEPT !.current_status = "Connecting"],
                                      "StatusUpdate", "Connecting", id)
                 IN  IF op_ok
                     THEN event_send(
                            event_send([w1 EXCEPT !.current_status = "Connected", !.connected = TRUE],
                                       "Connected", "ip", id),
                            "StatusUpdate", "Connected", id)
                     ELSE event_send(
                            event_send([w1 EXCEPT !.current_status = "Error"],
                                       "ConnectionFailed", "msg", id),
                            "StatusUpdate", "Disconnected", id)
            [] c.cmd = "Disconnect" ->
                 IF op_ok
                 THEN event_send(
                        event_send([w EXCEPT !.current_status = "Disconnected", !.connected = FALSE],
                                   "Disconnected", "", id),
                        "StatusUpdate", "Disconnected", id)
                 ELSE event_send([w EXCEPT !.current_status = "Error"], "StatusUpdate", "Error", id)
            [] c.cmd = "GetStatus" ->
                 event_send(w, "StatusUpdate", w.current_status, id)
            [] c.cmd = "Scan" ->
                 LET w1 == event_send([w EXCEPT !.current_status = "Scanning"],
                                      "StatusUpdate", "Scanning", id)
                     w2 == IF op_ok
                           THEN event_send(w1, "ScanResult", "names", id)
                           ELSE event_send(w1, "StatusUpdate", "Error", id)
                 IN  event_send([w2 EXCEPT !.current_status = RestoredStatus(w)],
                                "StatusUpdate", RestoredStatus(w), id)
    IN  [done EXCEPT !.handled = id]

\* WifiActor::check_connection_status
check_connection_status(w) ==
    CASE w.current_status = "Connected" /\ ~w.connected ->
           event_send(
             event_send([w EXCEPT !.current_status = "Disconnected"], "Disconnected", "", 0),
             "StatusUpdate", "Disconnected", 0)
      [] w.current_status = "Disconnected" /\ w.connected ->
           event_send(
             event_send([w EXCEPT !.current_status = "Connected"], "Connected", "ip", 0),
             "StatusUpdate", "Connected", 0)
      [] OTHER -> w

\* a loop that takes the newest queued command first
wifi_run_lifo(w, op_ok) ==
    IF w.commands # << >>
    THEN wifi_handle_command([w EXCEPT !.commands = SubSeq(@, 1, Len(@) - 1)],
                             w.commands[Len(w.commands)], op_ok)
    ELSE IF w.manager
         THEN check_connection_status(w)
         ELSE [w EXCEPT !.thread = "exited"]

\* one turn of WifiActor::run: recv_timeout gives a command, times out, or finds the
\* command channel disconnected (no command queued and the manager gone)
wifi_run(w, op_ok) ==
    IF w.commands # << >>
    THEN wifi_handle_command([w EXCEPT !.commands = Tail(@)], Head(w.commands), op_ok)
    ELSE IF w.manager
         THEN check_connection_status(w)
         ELSE [w EXCEPT !.thread = "exited"]

\* WifiActorManager::connect / disconnect / get_status / scan_networks:
\* command_sender.send(cmd)?, an error once the actor's receiver is gone
manager_send(w, cmd) ==
    IF w.thread \in {"spawned", "running"}
    THEN [w EXCEPT !.commands = Append(@, [cmd |-> cmd, id |-> w.accepted + 1]),
                   !.accepted = @ + 1,
                   !.asked = Append(@, cmd)]
    ELSE w

\* WifiActorManager::try_recv_event
try_recv_event(w) == IF w.events # << >> THEN [w EXCEPT !.events = Tail(@)] ELSE w

WifiIdle == wifi = NoWifiActor

(***************************************************************************)
(* DisplayActor and DisplayActorManager (src/actors/display.rs).           *)
(***************************************************************************)
\* before DisplayActorManager::new: no thread, no channel
NoDisplayActor ==
    [ thread  |-> "none",     \* "none", "starting", "running", "panicked" or "exited"
      manager |-> FALSE,      \* the DisplayActorManager, owner of the channel's only sender, is alive
      queue   |-> << >>,      \* the MotionState of the EventMessages in the channel
      sends   |-> 0,          \* on_motion calls made
      send    |-> "None",     \* the result of the last on_motion call: "Ok" or "Err"
      handled |-> 0,          \* events for which handle_event returned Ok
      updates |-> 0,          \* ChatApp::update calls that returned Ok
      failure |-> "none" ]    \* the call whose Err was unwrapped: "new" or "handle_event"

ConsumerIdle == consumer = NoDisplayActor

\* DisplayActorManager::new: the channel is made and the thread spawned; the thread
\* has yet to run DisplayActor::new
DisplayActorManager_new == [NoDisplayActor EXCEPT !.thread = "starting", !.manager = TRUE]

\* the receiver lives in the thread's closure, then in the DisplayActor, until the thread ends
ReceiverAlive(c) == c.thread \in {"starting", "running"}

\* DisplayActorManager::on_motion: sender.send(EventMessage::Motion(motion_state))?
DisplayActorManager_on_motion(c, motion_state) ==
    IF ReceiverAlive(c)
    THEN [c EXCEPT !.queue = Append(@, motion_state), !.sends = @ + 1, !.send = "Ok"]
    ELSE [c EXCEPT !.sends = @ + 1, !.send = "Err"]

\* .unwrap() on the Err of `call`: the thread panics; the DisplayActor, and with it the
\* receiver and what is queued, is dropped
unwrap_err(c, call) == [c EXCEPT !.thread = "panicked", !.failure = call, !.queue = << >>]

(***************************************************************************)
(* AudioBuffer (src/peripherals/microphone/i2s_microphone.rs): a ring of   *)
(* i16 samples with a write index and a read index.                        *)
(***************************************************************************)
\* sizes an AudioBuffer is made with
MaxSize == 3

\* the longest slice handed to write or read
MaxBurst == 3

\* i16 values written
AudioSamples == {1, 2}

\* the slices of samples handed to write
AudioData == UNION {[1..n -> AudioSamples] : n \in 0..MaxBurst}

\* AudioBuffer::new
AudioBuffer_new(size) ==
    [buffer |-> [i \in 0..(size - 1) |-> 0], write_index |-> 0, read_index |-> 0, size |-> size]

\* AudioBuffer::available_read
available_read(b) ==
    IF b.write_index >= b.read_index
    THEN b.write_index - b.read_index
    ELSE b.size - b.read_index + b.write_index

\* a space count that gives the slot in front of read_index away as well
available_write_full(b) == b.size - available_read(b)

\* AudioBuffer::available_write
available_write(b) == b.size - 1 - available_read(b)

\* AudioBuffer::write: sample after sample while there is space; ret is the number written
RECURSIVE write(_, _)
write(b, data) ==
    IF data = << >> \/ available_write(b) = 0
    THEN [b |-> b, ret |-> 0]
    ELSE LET b1 == [b EXCEPT !.buffer[b.write_index] = Head(data),
                             !.write_index = (@ + 1) % b.size]
             rest == write(b1, Tail(data))
         IN  [b |-> rest.b, ret |-> rest.ret + 1]

\* AudioBuffer::read into a slice of len samples: data is what was stored in it, ret
\* the number of samples read
RECURSIVE read(_, _)
read(b, len) ==
    IF len = 0 \/ available_read(b) = 0
    THEN [b |-> b, data |-> << >>, ret |-> 0]
    ELSE LET b1 == [b EXCEPT !.read_index = (@ + 1) % b.size]
             rest == read(b1, len - 1)
         IN  [b |-> rest.b, data |-> <<b.buffer[b.read_index]>> \o rest.data, ret |-> rest.ret + 1]

\* AudioBuffer::clear
clear(b) == [b EXCEPT !.write_index = 0, !.read_index = 0]

\* the smaller of two numbers
Min(a, b) == IF a <= b THEN a ELSE b

\* a bounded FIFO of capacity cap takes of data what it has room for
fifo_write(q, data, cap) == q \o SubSeq(data, 1, Min(Len(data), cap - Len(q)))

\* a bounded FIFO gives its oldest len samples, or all it has
fifo_read(q, len) == SubSeq(q, 1, Min(len, Len(q)))

\* no AudioBuffer yet
NoAudioBuffer ==
    [ call |-> "none",                 \* the call last made: "new", "write", "read" or "clear"
      b    |-> AudioBuffer_new(0),     \* the AudioBuffer
      arg  |-> << >>,                  \* the slice given to write
      len  |-> 0,                      \* the length of the slice given to read
      ret  |-> 0,                      \* what the call returned
      data |-> << >>,                  \* what read stored in its slice
      fifo |-> << >> ]                 \* a FIFO of capacity size - 1 given the same calls

AudioIdle == audio = NoAudioBuffer

AudioBufferNew(size) ==
    /\ audio.call = "none"
    /\ audio' = [NoAudioBuffer EXCEPT !.call = "new", !.b = AudioBuffer_new(size)]
    /\ UNCHANGED <<uiVars, detVars, busVars, actorVars>>

AudioWrite(data) ==
    LET out == write(audio.b, data)
    IN  /\ audio.call # "none"
        /\ audio' = [audio EXCEPT !.call = "write", !.b = out.b, !.arg = data, !.len = 0,
                                  !.ret = out.ret, !.data = << >>,
                                  !.fifo = fifo_write(@, data, audio.b.size - 1)]
        /\ UNCHANGED <<uiVars, detVars, busVars, actorVars>>

AudioRead(len) ==
    LET out == read(audio.b, len)
    IN  /\ audio.call # "none"
        /\ audio' = [audio EXCEPT !.call = "read", !.b = out.b, !.arg = << >>, !.len = len,
                                  !.ret = out.ret, !.data = out.data,
                                  !.fifo = SubSeq(@, Len(fifo_read(@, len)) + 1, Len(@))]
        /\ UNCHANGED <<uiVars, detVars, busVars, actorVars>>

AudioClear ==
    /\ audio.call # "none"
    /\ audio' = [audio EXCEPT !.call = "clear", !.b = clear(@), !.arg = << >>, !.len = 0,
                              !.ret = 0, !.data = << >>, !.fifo = << >>]
    /\ UNCHANGED <<uiVars, detVars, busVars, actorVars>>

AudioNext ==
    \/ \E size \in 1..MaxSize : AudioBufferNew(size)
    \/ \E data \in AudioData : AudioWrite(data)
    \/ \E len \in 0..MaxBurst : AudioRead(len)
    \/ AudioClear

(***************************************************************************)
(* The operations of the classifier.                                       *)
(***************************************************************************)
\* no configuring call has been made
NoConfigCall == [call |-> "none", ok |-> TRUE, changed |-> FALSE]

DetectorIdle ==
    /\ which = "MotionDetector"
    /\ det = MotionDetector_new
    /\ result = "None"
    /\ fed = NoSample
    /\ track = TrackInit
    /\ cfg = NoConfigCall

DetectorInit ==
    /\ which \in {"MotionDetector", "Legacy"}
    /\ det = IF which = "MotionDetector" THEN MotionDetector_new ELSE Legacy_new
    /\ result = "None"
    /\ fed = NoSample
    /\ track = TrackInit
    /\ cfg = NoConfigCall

\* a sample is classified
DetectMotion(data) ==
    LET out == IF which = "MotionDetector"
               THEN detect_motion(det, data)
               ELSE legacy_detect_motion(det, data)
    IN  /\ out.d.shake_count <= MaxCount
        /\ out.d.stable_count <= MaxCount
        /\ track.k < MaxCount
        /\ det' = out.d
        /\ result' = out.ret
        /\ fed' = data
        /\ track' = Tracked(track, det, data, fed)
        /\ UNCHANGED <<which, cfg, uiVars, busVars, actorVars, audioVars>>

\* MotionDetector::reset
Reset ==
    /\ which = "MotionDetector"
    /\ det' = reset(det)
    /\ result' = "None"
    /\ fed' = NoSample
    /\ track' = TrackInit
    /\ cfg' = [call |-> "reset", ok |-> TRUE, changed |-> reset(det) # det]
    /\ UNCHANGED <<which, uiVars, busVars, actorVars, audioVars>>

(***************************************************************************)
(* The operations of the display.                                          *)
(***************************************************************************)
TickBound == IF build = "ChatApp" THEN MaxTicks ELSE MaxTimedTicks

\* the record of a call, and the clock of the state change it may have made
Called(call, arg) ==
    /\ last' = [call |-> call, arg |-> arg, from |-> disp.state]
    /\ entered_at' = IF disp'.state # disp.state THEN now ELSE entered_at

DisplayInit ==
    /\ build \in {"ChatApp", "Display"}
    /\ disp = IF build = "ChatApp" THEN ChatApp_new ELSE Display_new
    /\ now = 0
    /\ last = [call |-> "new", arg |-> NoMsg, from |-> disp.state]
    /\ entered_at = 0

UIInit ==
    /\ DisplayInit
    /\ DetectorIdle
    /\ BusIdle
    /\ MotionIdle
    /\ WifiIdle
    /\ ConsumerIdle
    /\ AudioIdle

\* the periodic update of the display
Update ==
    /\ disp.state_timer < TickBound
    /\ disp' = update(Fresh(disp))
    /\ Called("update", NoMsg)
    /\ UNCHANGED <<build, now, detVars, busVars, actorVars, audioVars>>

\* the user's "back" input
Back ==
    /\ disp' = IF build = "ChatApp" THEN ChatApp_back(Fresh(disp)) ELSE back(Fresh(disp), now)
    /\ Called("back", NoMsg)
    /\ UNCHANGED <<build, now, detVars, busVars, actorVars, audioVars>>

\* a motion event reaches Display::on_motion
OnMotion(m) ==
    /\ build = "Display"
    /\ disp' = on_motion(Fresh(disp), m, now)
    /\ Called("motion", m)
    /\ UNCHANGED <<build, now, detVars, busVars, actorVars, audioVars>>

\* a motion event reaches DisplayActor::handle_event
HandleEvent(m) ==
    /\ build = "ChatApp"
    /\ disp.state_timer < TickBound
    /\ disp' = handle_event(Fresh(disp), m)
    /\ Called("motion", m)
    /\ UNCHANGED <<build, now, detVars, busVars, actorVars, audioVars>>

EnterWelcome ==
    /\ disp' = enter_welcome(Fresh(disp))
    /\ Called("enter_welcome", NoMsg)
    /\ UNCHANGED <<build, now, detVars, busVars, actorVars, audioVars>>

EnterMain ==
    /\ disp' = enter_main(Fresh(disp))
    /\ Called("enter_main", NoMsg)
    /\ UNCHANGED <<build, now, detVars, busVars, actorVars, audioVars>>

\* the user's "settings" input
EnterSettings ==
    /\ disp' = enter_settings(Fresh(disp))
    /\ Called("enter_settings", NoMsg)
    /\ UNCHANGED <<build, now, detVars, busVars, actorVars, audioVars>>

EnterThinking ==
    /\ disp' = enter_thinking(Fresh(disp))
    /\ Called("enter_thinking", NoMsg)
    /\ UNCHANGED <<build, now, detVars, busVars, actorVars, audioVars>>

\* a system fault with message m is shown
EnterError(m) ==
    /\ disp' = enter_error(Fresh(disp), m)
    /\ Called("enter_error", m)
    /\ UNCHANGED <<build, now, detVars, busVars, actorVars, audioVars>>

\* the microsecond clock advances
ClockAdvance(step) ==
    /\ build = "Display"
    /\ now + step <= MaxNow
    /\ step = Second => \/ now % U32 < MaxWindow * Second
                        \/ now % U32 >= U32 - 3 * Second
    /\ now' = now + step
    /\ UNCHANGED <<build, disp, last, entered_at, detVars, busVars, actorVars, audioVars>>

UINext ==
    \/ Update
    \/ Back
    \/ \E m \in MotionState : OnMotion(m)
    \/ \E m \in MotionState : HandleEvent(m)
    \/ EnterWelcome
    \/ EnterMain
    \/ EnterSettings
    \/ EnterThinking
    \/ \E m \in Msgs : EnterError(m)
    \/ \E step \in ClockSteps : ClockAdvance(step)

SpecUI == UIInit /\ [][UINext]_vars

\* threshold values a client may pass: f32, so NaN among them
AccelInputs == {NaN, -1, 0, 5, MIN_VALID_ACCEL_THRESHOLD, LEGACY_ACCEL_THRESHOLD}

GyroInputs == {NaN, -1, 0, DEFAULT_GYRO_THRESHOLD}

TiltInputs == {NaN, 0, MAX_TILT_ANGLE, MAX_TILT_ANGLE + 1}

\* samples that shake a detector whose accel threshold is below 1000
ConfigSamples == {Sample(0, 0, 1000, 0, 200, 0), Sample(0, 0, 2000, 0, 200, 0)}

\* MotionDetector::with_config: on Ok the new detector replaces the one in use
WithConfig(accel, gyro, tilt) ==
    LET r == with_config(accel, gyro, tilt)
    IN  /\ which = "MotionDetector"
        /\ cfg' = [call |-> "with_config", ok |-> r.ok, changed |-> r.ok /\ r.d # det]
        /\ IF r.ok
           THEN /\ det' = r.d
                /\ result' = "None"
                /\ fed' = NoSample
                /\ track' = TrackInit
           ELSE UNCHANGED <<det, result, fed, track>>
        /\ UNCHANGED <<which, uiVars, busVars, actorVars, audioVars>>

\* set_thresholds, of either detector
SetThresholds(accel, gyro) ==
    LET r == IF which = "MotionDetector"
             THEN set_thresholds(det, accel, gyro)
             ELSE legacy_set_thresholds(det, accel, gyro)
    IN  /\ cfg' = [call |-> "set_thresholds", ok |-> r.ok, changed |-> r.d # det]
        /\ det' = r.d
        /\ UNCHANGED <<which, result, fed, track, uiVars, busVars, actorVars, audioVars>>

\* MotionDetector::set_tilt_threshold
SetTiltThreshold(tilt) ==
    LET r == set_tilt_threshold(det, tilt)
    IN  /\ which = "MotionDetector"
        /\ cfg' = [call |-> "set_tilt_threshold", ok |-> r.ok, changed |-> r.d # det]
        /\ det' = r.d
        /\ UNCHANGED <<which, result, fed, track, uiVars, busVars, actorVars, audioVars>>

\* a sample is classified between configuring calls
ConfigDetect(data) ==
    /\ det.shake_count + det.stable_count < MaxConfigCount
    /\ DetectMotion(data)

ConfigNext ==
    \/ \E accel \in AccelInputs : \E gyro \in GyroInputs : \E tilt \in TiltInputs :
            WithConfig(accel, gyro, tilt)
    \/ \E accel \in AccelInputs : \E gyro \in GyroInputs : SetThresholds(accel, gyro)
    \/ \E tilt \in TiltInputs : SetTiltThreshold(tilt)
    \/ \E data \in ConfigSamples : ConfigDetect(data)
    \/ Reset

DetectorNext ==
    \/ \E data \in Samples : DetectMotion(data)
    \/ Reset

DisplayIdle ==
    /\ build = "ChatApp"
    /\ disp = ChatApp_new
    /\ now = 0
    /\ last = [call |-> "new", arg |-> NoMsg, from |-> disp.state]
    /\ entered_at = 0

DetectorSpecInit ==
    /\ DetectorInit
    /\ DisplayIdle
    /\ BusIdle
    /\ MotionIdle
    /\ WifiIdle
    /\ ConsumerIdle
    /\ AudioIdle

SpecDetector == DetectorSpecInit /\ [][DetectorNext]_vars

SpecConfig == DetectorSpecInit /\ [][ConfigNext]_vars

\* the operations of the event bus
GetSender(p) ==
    /\ bus.senders[p] = "none"
    /\ bus.recv # "Blocked"
    /\ bus' = get_sender(bus, p)
    /\ UNCHANGED <<uiVars, detVars, actorVars, audioVars>>

\* actor p ends, or lets go of its sender
DropSender(p) ==
    /\ bus.senders[p] = "held"
    /\ bus' = [bus EXCEPT !.senders[p] = "dropped"]
    /\ UNCHANGED <<uiVars, detVars, actorVars, audioVars>>

Send(p, payload) ==
    /\ bus.senders[p] = "held"
    /\ SendCalls(bus) < MaxSent
    /\ bus' = send(bus, p, payload)
    /\ UNCHANGED <<uiVars, detVars, actorVars, audioVars>>

TryRecv ==
    /\ bus.receiver
    /\ bus.recv # "Blocked"
    /\ bus' = try_recv(bus)
    /\ UNCHANGED <<uiVars, detVars, actorVars, audioVars>>

\* a call of recv, or a blocked call of it going on
Recv ==
    /\ bus.receiver
    /\ bus' = recv(bus)
    /\ UNCHANGED <<uiVars, detVars, actorVars, audioVars>>

\* the bus goes out of scope: the receiver is dropped with what is still queued
DropBus ==
    /\ bus.receiver
    /\ bus.recv # "Blocked"
    /\ bus' = [bus EXCEPT !.receiver = FALSE, !.queue = << >>]
    /\ UNCHANGED <<uiVars, detVars, actorVars, audioVars>>

BusNext ==
    \/ \E p \in Producers : GetSender(p)
    \/ \E p \in Producers : DropSender(p)
    \/ \E p \in Producers : \E payload \in Payloads(p) : Send(p, payload)
    \/ TryRecv
    \/ Recv
    \/ DropBus

BusSpecInit ==
    /\ BusIdle
    /\ DisplayIdle
    /\ DetectorIdle
    /\ MotionIdle
    /\ WifiIdle
    /\ ConsumerIdle
    /\ AudioIdle

SpecBus == BusSpecInit /\ [][BusNext]_vars

(***************************************************************************)
(* The motion actor on the bus.                                            *)
(***************************************************************************)
\* an Err arm that forgets what was published
on_read_error_forgets(a) ==
    [a EXCEPT !.read = "Err", !.send = "None", !.polls = @ + 1, !.polled_at = now,
              !.errs = @ + 1, !.after_errs = a.errs, !.last_state = "None"]

\* the Err arm of the loop: the error is logged, nothing else
on_read_error(a) ==
    [a EXCEPT !.read = "Err", !.send = "None", !.polls = @ + 1, !.polled_at = now,
              !.errs = @ + 1, !.after_errs = a.errs]

\* the Ok arm of the loop, once the sample is classified as motion_state at `time`
on_sample(a, motion_state, time, receiver) ==
    LET a1 == [a EXCEPT !.read = "Ok", !.polls = @ + 1, !.polled_at = time,
                        !.errs = 0, !.after_errs = a.errs]
    IN  IF should_send(a, motion_state, time)
        THEN [a1 EXCEPT !.last_state = motion_state,
                        !.last_sent_time = time,
                        !.send = IF receiver THEN "Ok" ELSE "Err",
                        !.sent_at = IF receiver THEN time ELSE @]
        ELSE [a1 EXCEPT !.send = "None"]

\* MotionActorManager::new: the caller hands it a clone of the bus's sender; the driver
\* initialises or not
MotionActorManagerNew(init_ok) ==
    /\ motion.thread = "none"
    /\ bus.senders["Motion"] = "none"
    /\ motion' = IF init_ok THEN MotionActor_new ELSE MotionActor_failed
    /\ bus' = IF init_ok
              THEN get_sender(bus, "Motion")
              ELSE [get_sender(bus, "Motion") EXCEPT !.senders["Motion"] = "dropped"]
    /\ UNCHANGED <<uiVars, detVars, wifi, consumer, audioVars>>

\* one turn of MotionActor::run: read, classify, publish if should_send, sleep
MotionCycle(read_ok, data) ==
    /\ motion.thread = "running"
    /\ motion.polls < MaxPolls
    /\ SendCalls(bus) < MaxSent
    /\ IF read_ok
       THEN LET out == detect_motion(det, data)
            IN  /\ det' = out.d
                /\ result' = out.ret
                /\ fed' = data
                /\ track' = Tracked(track, det, data, fed)
                /\ motion' = on_sample(motion, out.ret, now, bus.receiver)
                /\ bus' = IF should_send(motion, out.ret, now)
                          THEN send(bus, "Motion", out.ret)
                          ELSE bus
       ELSE /\ motion' = on_read_error(motion)
            /\ UNCHANGED <<det, result, fed, track, bus>>
    /\ now' = now + PollPeriod
    /\ UNCHANGED <<build, disp, last, entered_at, which, cfg, wifi, consumer, audioVars>>

MotionNext ==
    \/ \E init_ok \in BOOLEAN : MotionActorManagerNew(init_ok)
    \/ \E read_ok \in BOOLEAN : \E data \in ActorSamples : MotionCycle(read_ok, data)
    \/ TryRecv
    \/ DropBus

MotionSpecInit ==
    /\ BusIdle
    /\ DisplayIdle
    /\ DetectorIdle
    /\ MotionIdle
    /\ WifiIdle
    /\ ConsumerIdle
    /\ AudioIdle

SpecMotion == MotionSpecInit /\ [][MotionNext]_vars

(***************************************************************************)
(* The wifi actor's operations.                                            *)
(***************************************************************************)
WifiActorManagerNew ==
    /\ wifi.thread = "none"
    /\ wifi' = WifiActorManager_new
    /\ UNCHANGED <<uiVars, detVars, busVars, motion, consumer, audioVars>>

\* the thread starts: WifiActor::new
WifiActorStart(init_ok) ==
    /\ wifi.thread = "spawned"
    /\ wifi' = WifiActor_new(wifi, init_ok)
    /\ UNCHANGED <<uiVars, detVars, busVars, motion, consumer, audioVars>>

WifiRun(op_ok) ==
    /\ wifi.thread = "running"
    /\ wifi' = wifi_run(wifi, op_ok)
    /\ UNCHANGED <<uiVars, detVars, busVars, motion, consumer, audioVars>>

ManagerSend(cmd) ==
    /\ wifi.manager
    /\ wifi.accepted < MaxCommands
    /\ wifi' = manager_send(wifi, cmd)
    /\ UNCHANGED <<uiVars, detVars, busVars, motion, consumer, audioVars>>

ManagerTryRecvEvent ==
    /\ wifi.manager
    /\ wifi' = try_recv_event(wifi)
    /\ UNCHANGED <<uiVars, detVars, busVars, motion, consumer, audioVars>>

\* the manager is dropped: its command sender and its event receiver go
DropManager ==
    /\ wifi.manager
    /\ wifi' = [wifi EXCEPT !.manager = FALSE, !.events = << >>]
    /\ UNCHANGED <<uiVars, detVars, busVars, motion, consumer, audioVars>>

\* the radio link comes or goes by itself
LinkChange ==
    /\ wifi.thread = "running"
    /\ wifi.flips < MaxFlips
    /\ wifi' = [wifi EXCEPT !.connected = ~@, !.flips = @ + 1]
    /\ UNCHANGED <<uiVars, detVars, busVars, motion, consumer, audioVars>>

WifiNext ==
    \/ WifiActorManagerNew
    \/ \E init_ok \in BOOLEAN : WifiActorStart(init_ok)
    \/ \E op_ok \in BOOLEAN : WifiRun(op_ok)
    \/ \E cmd \in WifiCommand : ManagerSend(cmd)
    \/ ManagerTryRecvEvent
    \/ DropManager
    \/ LinkChange

WifiSpecInit ==
    /\ BusIdle
    /\ DisplayIdle
    /\ DetectorIdle
    /\ MotionIdle
    /\ WifiIdle
    /\ ConsumerIdle
    /\ AudioIdle

SpecWifi == WifiSpecInit /\ [][WifiNext]_vars

(***************************************************************************)
(* The display actor: its manager's calls and the steps of its thread.     *)
(***************************************************************************)
DisplayActorManagerNew ==
    /\ consumer.thread = "none"
    /\ consumer' = DisplayActorManager_new
    /\ UNCHANGED <<uiVars, detVars, busVars, motion, wifi, audioVars>>

\* the thread's first statement: DisplayActor::new(bl_io, receiver).unwrap()
DisplayActorStart(init_ok) ==
    /\ consumer.thread = "starting"
    /\ consumer' = IF init_ok
                   THEN [consumer EXCEPT !.thread = "running"]
                   ELSE unwrap_err(consumer, "new")
    /\ UNCHANGED <<uiVars, detVars, busVars, motion, wifi, audioVars>>

\* a client calls DisplayActorManager::on_motion
ManagerOnMotion(m) ==
    /\ consumer.manager
    /\ consumer.sends < MaxMotionSends
    /\ consumer' = DisplayActorManager_on_motion(consumer, m)
    /\ UNCHANGED <<uiVars, detVars, busVars, motion, wifi, audioVars>>

\* one turn of `while let Ok(event) = receiver.recv() { handle_event(event).unwrap() }`
\* with an event queued; with none queued and the sender alive, recv() blocks and the
\* thread makes no step
ConsumerHandle(handle_ok) ==
    /\ consumer.thread = "running"
    /\ consumer.queue # << >>
    /\ IF handle_ok
       THEN /\ disp' = handle_event(Fresh(disp), Head(consumer.queue))
            /\ Called("motion", Head(consumer.queue))
            /\ consumer' = [consumer EXCEPT !.queue = Tail(@), !.handled = @ + 1,
                                            !.updates = @ + 1]
       ELSE /\ consumer' = unwrap_err(consumer, "handle_event")
            /\ UNCHANGED <<disp, last, entered_at>>
    /\ UNCHANGED <<build, now, detVars, busVars, motion, wifi, audioVars>>

\* recv() returns Err once the sender is dropped and nothing is queued: the loop ends
ConsumerExit ==
    /\ consumer.thread = "running"
    /\ consumer.queue = << >>
    /\ ~consumer.manager
    /\ consumer' = [consumer EXCEPT !.thread = "exited"]
    /\ UNCHANGED <<uiVars, detVars, busVars, motion, wifi, audioVars>>

\* the DisplayActorManager is dropped
DropDisplayManager ==
    /\ consumer.manager
    /\ consumer' = [consumer EXCEPT !.manager = FALSE]
    /\ UNCHANGED <<uiVars, detVars, busVars, motion, wifi, audioVars>>

\* the steps the display actor's thread makes by itself
ConsumerStep ==
    \/ \E init_ok \in BOOLEAN : DisplayActorStart(init_ok)
    \/ \E handle_ok \in BOOLEAN : ConsumerHandle(handle_ok)
    \/ ConsumerExit

ConsumerNext ==
    \/ DisplayActorManagerNew
    \/ \E m \in MotionState : ManagerOnMotion(m)
    \/ DropDisplayManager
    \/ ConsumerStep

ConsumerSpecInit ==
    /\ DisplayIdle
    /\ DetectorIdle
    /\ BusIdle
    /\ MotionIdle
    /\ WifiIdle
    /\ ConsumerIdle
    /\ AudioIdle

SpecConsumer == ConsumerSpecInit /\ [][ConsumerNext]_vars

\* the thread is scheduled whenever it can make a step; events come when clients send them
SpecConsumerFair == SpecConsumer /\ WF_vars(ConsumerStep)

(***************************************************************************)
(* End to end: the sensor actor's cycle, the event bus, and an             *)
(* orchestrator's turn (drain the bus, dispatch to the display, update).   *)
(***************************************************************************)
\* the samples injected: at rest; rotating at 1 g and at 2 g; the same two face down
E2ESamples ==
    { Sample(0, 0, 1000, 0, 0, 0),
      Sample(0, 0, 1000, 0, 200, 0),
      Sample(0, 0, 2000, 0, 200, 0),
      Sample(0, 0, -1000, 0, -200, 0),
      Sample(0, 0, -2000, 0, -200, 0) }

RECURSIVE drain(_)
\* the orchestrator's non-blocking drain: try_recv until the bus is empty
drain(b) == IF b.queue = << >> THEN b ELSE drain(try_recv(b))

RECURSIVE dispatch(_, _, _)
\* the orchestrator's dispatch of the drained events: a Motion event goes to on_motion
dispatch(d, events, t) ==
    IF events = << >>
    THEN d
    ELSE dispatch(IF Head(events).kind = "Motion" THEN on_motion(d, Head(events).payload, t) ELSE d,
                  Tail(events), t)

\* the orchestrator's turn: drain, dispatch, then the periodic update
orchestrate(d, b, t) == [d |-> update(dispatch(d, b.queue, t)), b |-> drain(b)]

E2EDisplayInit ==
    /\ build = "Display"
    /\ disp = Display_new
    /\ now = 0
    /\ last = [call |-> "new", arg |-> NoMsg, from |-> disp.state]
    /\ entered_at = 0

E2EInit ==
    /\ E2EDisplayInit
    /\ DetectorIdle
    /\ BusIdle
    /\ MotionIdle
    /\ WifiIdle
    /\ ConsumerIdle
    /\ AudioIdle

\* the sensor actor is started
E2EStart == MotionActorManagerNew(TRUE)

\* the sample fits the scenario: MaxGentle samples whose acceleration change
\* is not above the threshold, then MaxRun samples above both thresholds
InScenario(data) ==
    IF motion.polls < MaxGentle
    THEN ~AccelAbove(track, det, data)
    ELSE track.k < MaxRun /\ Qualifying(track, det, data)

\* one cycle: the actor reads, classifies and publishes; the orchestrator takes its turn
E2ECycle(data) ==
    LET out == detect_motion(det, data)
        sent == IF should_send(motion, out.ret, now) THEN send(bus, "Motion", out.ret) ELSE bus
        turn == orchestrate(Fresh(disp), sent, now)
    IN  /\ motion.thread = "running"
        /\ InScenario(data)
        /\ det' = out.d
        /\ result' = out.ret
        /\ fed' = data
        /\ track' = Tracked(track, det, data, fed)
        /\ motion' = on_sample(motion, out.ret, now, bus.receiver)
        /\ bus' = turn.b
        /\ disp' = turn.d
        /\ Called("motion", out.ret)
        /\ now' = now + PollPeriod
        /\ UNCHANGED <<build, which, cfg, wifi, consumer, audioVars>>

E2ENext ==
    \/ E2EStart
    \/ \E data \in E2ESamples : E2ECycle(data)

SpecE2E == E2EInit /\ [][E2ENext]_vars

Init == UIInit
Next == UINext
Spec == Init /\ [][Next]_vars

(***************************************************************************)
(* The display state machine: C1 - C4.                                     *)
(***************************************************************************)
\* the step is a call on the display (the clock alone leaves `last` as it is)
DisplayCall == now' = now

StillOrBack ==
    \/ last.call = "back"
    \/ last.call = "motion" /\ last.arg = "Still"

\* Dizzy has been active for the minimum dwell: 60 ticks, or 3 s of the clock
DwellElapsed ==
    IF build = "ChatApp"
    THEN disp.state_timer >= MIN_DIZZINESS_DURATION
    ELSE now - entered_at >= MIN_DIZZINESS_DURATION_US \div UnitUs

\* C1: in Dizzy, a Still motion event or a "back" leaves the state as it is
\* while Dizzy has been active for less than the minimum dwell, and leads to
\* Home once the dwell has elapsed.
C1_DizzyDwell ==
    [][ (DisplayCall /\ StillOrBack' /\ disp.state = Dizziness)
            => disp'.state = IF DwellElapsed THEN Main ELSE Dizziness ]_vars

\* C2: from every state a system fault puts the display in Error, with the
\* fault's message.
C2_FaultEntersError ==
    last.call = "enter_error" => disp.state = Error(last.arg)

\* a fault arrived in Dizzy at the very clock value at which Dizzy was entered
C2_Witness ==
    /\ build = "Display"
    /\ last.call = "enter_error"
    /\ last.from = Dizziness
    /\ disp.state = Error("sensor")
    /\ now < U32
    /\ disp.dizziness_start_time = now

\* C3: with no further event, Error lasts until the timeout tick count (3 s of
\* ticks, the duration of the Dizzy dwell) is reached, and the tick that
\* reaches it leads to Welcome.
C3_ErrorTimeout ==
    [][ (DisplayCall /\ last'.call = "update" /\ disp.state.tag = "Error")
            => disp'.state = IF disp.state_timer + 1 >= MIN_DIZZINESS_DURATION
                             THEN Welcome
                             ELSE disp.state ]_vars

\* the call asks for the state the display is in
Reentry ==
    \/ last'.call = "motion" /\ last'.arg = "Tilting" /\ disp.state = Tilting
    \/ last'.call = "motion" /\ last'.arg = "Shaking" /\ disp.state = Dizziness
    \/ last'.call = "enter_welcome" /\ disp.state = Welcome
    \/ last'.call = "enter_main" /\ disp.state = Main
    \/ last'.call = "enter_settings" /\ disp.state = Settings
    \/ last'.call = "enter_thinking" /\ disp.state = Thinking
    \/ last'.call = "enter_error" /\ disp.state = Error(last'.arg)

C5_ShakingAtNth ==
    (which = "MotionDetector" /\ track.pat = "run1")
        => (result = "Shaking" <=> track.k >= SHAKE_COUNT_THRESHOLD)

\* C6: 11 consecutive qualifying samples, one non-qualifying sample and 11
\* more qualifying samples never give Shaking.
C6_BrokenRunNoShaking ==
    (which = "MotionDetector" /\ track.pat \in {"run1", "gap", "run2"}
        /\ (track.pat = "run1" => track.k < SHAKE_COUNT_THRESHOLD))
        => result # "Shaking"

\* C7: Shaking is returned only after some sample's acceleration change was
\* above the acceleration threshold and some sample's angular rate was above
\* the angular-rate threshold.
C7_BothConditions ==
    result = "Shaking" => (track.ever_accel /\ track.ever_gyro)

\* C8: a detect_motion call with the sample of the call before it returns what
\* that call returned and leaves shake_count, stable_count and the magnitude
\* baseline as they are.
C8_Idempotent ==
    [][ (which = "MotionDetector" /\ fed # NoSample /\ fed' = fed)
            => /\ result' = result
               /\ det'.shake_count = det.shake_count
               /\ det'.stable_count = det.stable_count
               /\ det'.prev_accel_magnitude = det.prev_accel_magnitude ]_vars

\* a sample was fed twice in a row to a classifier that is counting shakes
C8_Witness ==
    /\ which = "MotionDetector"
    /\ track.rep
    /\ det.shake_count >= 2
    /\ det.cached_result.is_shaking

\* C9: once shake_count has reached its threshold, every result is Shaking
\* until shake_count is reset.
C9_ShakingHeld ==
    (which = "MotionDetector" /\ fed # NoSample /\ det.shake_count >= SHAKE_COUNT_THRESHOLD)
        => result = "Shaking"

\* the events of producer p among those received, in the order of their receipt
ReceivedFrom(p) == SelectSeq(bus.received, LAMBDA e : e.kind = p)

\* C10: the events one producer sent are received in the order it sent them, whatever
\* the other producers send in between, and no sent event is received twice: what has
\* been received from a producer is the beginning of what it successfully sent
C10_FifoPerProducer ==
    \A p \in Producers :
        /\ Len(ReceivedFrom(p)) <= Len(bus.sent[p])
        /\ ReceivedFrom(p) = SubSeq(bus.sent[p], 1, Len(ReceivedFrom(p)))

\* two events of one producer have been received with another producer's event
\* sent and received between them
C10_Witness ==
    /\ Len(bus.received) >= 3
    /\ bus.received[1].kind = "Motion"
    /\ bus.received[2].kind = "Wifi"
    /\ bus.received[3].kind = "Motion"
    /\ bus.received[1].payload # bus.received[3].payload

\* C15: a recv on the bus does not stay blocked once every actor has dropped its
\* sender and nothing is queued (it returns the channel-closed error instead)
C15_RecvClosesWhenActorsGone ==
    (bus.queue = << >> /\ \A p \in Producers : bus.senders[p] = "dropped")
        => bus.recv # "Blocked"

(***************************************************************************)
(* The motion actor: C11 - C14, C18.                                       *)
(***************************************************************************)
\* the Motion events published so far
Published == bus.sent["Motion"]

\* the step is a turn of the motion actor's loop
Polled == motion'.polls = motion.polls + 1

\* C11: after every cycle with a successful read, a Motion event has been published
\* less than the heartbeat interval before that cycle; the next cycle is one polling
\* period later, so no more than 5 s and a polling period pass without a publish
\* while reads succeed, whether the state changes or not
C11_Heartbeat ==
    (motion.read = "Ok" /\ bus.receiver)
        => /\ motion.sent_at >= 0
           /\ motion.polled_at - motion.sent_at < HEARTBEAT_INTERVAL_US \div UnitUs

\* a heartbeat has been published: the same state as the event before it
C11_Witness ==
    /\ motion.read = "Ok"
    /\ motion.send = "Ok"
    /\ motion.polled_at >= HEARTBEAT_INTERVAL_US \div UnitUs
    /\ Len(Published) >= 2
    /\ Published[Len(Published)].payload = Published[Len(Published) - 1].payload

\* the newly classified state is due for publishing: nothing was published yet, it is
\* not the state last published, or the last publish is a heartbeat interval old
Due ==
    \/ Published = << >>
    \/ Published[Len(Published)].payload # result'
    \/ now - motion.sent_at >= HEARTBEAT_INTERVAL_US \div UnitUs

\* C12: a cycle with a successful read publishes exactly one Motion event, carrying
\* the newly classified state, when that state is due, and nothing otherwise
C12_OnePublishWhenDue ==
    [][ (Polled /\ motion'.read = "Ok" /\ bus.receiver)
            => IF Due
               THEN /\ Len(bus'.queue) = Len(bus.queue) + 1
                    /\ bus'.queue[Len(bus'.queue)].kind = "Motion"
                    /\ bus'.queue[Len(bus'.queue)].payload = result'
                    /\ SubSeq(bus'.queue, 1, Len(bus.queue)) = bus.queue
               ELSE bus'.queue = bus.queue ]_vars

\* a cycle has published nothing, after events were published on changes of state
C12_Witness ==
    /\ motion.read = "Ok"
    /\ motion.send = "None"
    /\ bus.receiver
    /\ Len(Published) >= 2
    /\ Published[1].payload # Published[2].payload

\* C13: a cycle whose read fails publishes nothing, leaves the classifier, the last
\* published state and the last publish time as they are, and the loop goes on
C13_ReadErrorSkipsCycle ==
    [][ (Polled /\ motion'.read = "Err")
            => /\ bus' = bus
               /\ det' = det
               /\ motion'.last_state = motion.last_state
               /\ motion'.last_sent_time = motion.last_sent_time
               /\ motion'.sent_at = motion.sent_at
               /\ motion'.thread = "running" ]_vars

\* after two read errors in a row, after a publish, a read succeeded and its state was published
C13_Witness ==
    /\ motion.read = "Ok"
    /\ motion.after_errs >= 2
    /\ motion.send = "Ok"
    /\ Len(Published) >= 2

\* C14: after a send that failed, the actor makes no further cycle
C14_FailedSendIsFatal ==
    [][ motion.send = "Err" => ~Polled ]_vars

\* C18: when the actor's construction fails while the bus is there, a fault event
\* has been published on it
C18_ConstructionFaultPublished ==
    (motion.thread = "failed" /\ bus.receiver)
        => (bus.sent["System"] # << >> \/ bus.sent["Motion"] # << >>)

(***************************************************************************)
(* The wifi actor: C16, C17.                                               *)
(***************************************************************************)
\* C16: nothing a client does makes an actor's loop exit
C16_NoShutdownPath == wifi.thread # "exited" /\ motion.thread # "exited"

\* event e reports the outcome of command cmd (the notices of progress, Connecting and
\* Scanning, and the status report that closes a command do not)
IsResultOf(cmd, e) ==
    CASE cmd = "Connect"    -> e.kind \in {"Connected", "ConnectionFailed"}
      [] cmd = "Disconnect" -> e.kind = "Disconnected" \/ (e.kind = "StatusUpdate" /\ e.arg = "Error")
      [] cmd = "GetStatus"  -> e.kind = "StatusUpdate"
      [] cmd = "Scan"       -> e.kind = "ScanResult" \/ (e.kind = "StatusUpdate" /\ e.arg = "Error")

\* the result events put on the event channel for command number id
ResultsFor(id) ==
    SelectSeq(wifi.emitted, LAMBDA e : e.cmd = id /\ IsResultOf(wifi.asked[id], e))

\* the actor is through with command number id: handled, or its thread has ended
Finished(id) == id <= wifi.handled \/ wifi.thread \in {"failed", "exited"}

\* C17: every command the manager's send accepted has, once the actor is through
\* with it, exactly one result event on the event channel (the manager being there
\* to receive it)
C17_OneResultPerCommand ==
    wifi.manager =>
        \A id \in 1..wifi.accepted : Finished(id) => Len(ResultsFor(id)) = 1

(***************************************************************************)
(* Motion events on the display: C19, C20.                                 *)
(***************************************************************************)
\* the step is motion event m reaching the display
MotionEvent(m) == DisplayCall /\ last'.call = "motion" /\ last'.arg = m

\* C19: in Dizzy, a Tilting motion event leaves the display in Dizzy, whatever
\* events came before it
C19_DizzyOverTilted ==
    [][ (MotionEvent("Tilting") /\ disp.state = Dizziness) => disp'.state = Dizziness ]_vars

\* Tilting has come in Dizzy: the display is still in Dizzy and nothing was cleared
C19_Witness ==
    /\ last.call = "motion"
    /\ last.arg = "Tilting"
    /\ last.from = Dizziness
    /\ disp.state = Dizziness
    /\ disp.clears = 0

\* C20: Shaking in Home, Settings or Tilted leads to Dizzy; Tilting in Home or
\* Settings leads to Tilted; Still in Tilted leads to Home
C20_MotionTable ==
    [][ /\ (MotionEvent("Shaking") /\ disp.state \in {Main, Settings, Tilting})
                => disp'.state = Dizziness
        /\ (MotionEvent("Tilting") /\ disp.state \in {Main, Settings})
                => disp'.state = Tilting
        /\ (MotionEvent("Still") /\ disp.state = Tilting)
                => disp'.state = Main ]_vars

\* Still has come in Tilted and the display is in Home, its timer restarted
C20_Witness ==
    /\ last.call = "motion"
    /\ last.arg = "Still"
    /\ last.from = Tilting
    /\ disp.state = Main
    /\ disp.clears = 1

(***************************************************************************)
(* Welcome and Settings: C21, C22.                                         *)
(***************************************************************************)
\* the step is a user input ("back", "settings") or a motion event
InputEvent == DisplayCall /\ last'.call \in {"back", "enter_settings", "motion"}

\* C21: in Welcome, the state after any input event (a user input or a motion
\* event of any kind) is Home
C21_WelcomeAnyInputHome ==
    [][ (InputEvent /\ disp.state = Welcome) => disp'.state = Main ]_vars

\* C22: the "settings" input in Home leads to Settings, and the "back" input
\* in Settings leads to Home
C22_SettingsBack ==
    [][ /\ (DisplayCall /\ last'.call = "enter_settings" /\ disp.state = Main)
                => disp'.state = Settings
        /\ (DisplayCall /\ last'.call = "back" /\ disp.state = Settings)
                => disp'.state = Main ]_vars

(***************************************************************************)
(* Clearing, ticking and rendering: C23.                                   *)
(***************************************************************************)
\* the ticks the call makes: update() itself, and the update() that ends
\* DisplayActor::handle_event
TicksOfCall ==
    IF last'.call = "update" \/ (build = "ChatApp" /\ last'.call = "motion") THEN 1 ELSE 0

\* the call's state change is the one update() makes at the Error timeout:
\* it comes after the call's tick, every other change before it
ChangedByTimeout ==
    /\ last'.call \in {"update", "motion"}
    /\ disp.state.tag = "Error"
    /\ disp'.state = Welcome

\* C23: a call clears the screen once when it changes the state and not at
\* all when it does not; ticks_since_entry is 0 at a state change and is
\* advanced by each tick after it; each tick renders once
C23_ClearOncePerChange ==
    [][ DisplayCall
            => /\ disp'.clears = IF disp'.state # disp.state THEN 1 ELSE 0
               /\ disp'.draws = TicksOfCall
               /\ disp'.state_timer =
                    IF disp'.state = disp.state THEN disp.state_timer + TicksOfCall
                    ELSE IF ChangedByTimeout THEN 0
                    ELSE TicksOfCall ]_vars

\* the tick that reaches the Error timeout: one render, then the change to
\* Welcome with one clear and the timer at 0
C23_Witness ==
    /\ last.call = "update"
    /\ last.from.tag = "Error"
    /\ disp.state = Welcome
    /\ disp.clears = 1
    /\ disp.draws = 1
    /\ disp.state_timer = 0

(***************************************************************************)
(* Classifier configuration: C24.                                          *)
(***************************************************************************)
\* C24: every classifier that the constructors and setters lead to has
\* positive thresholds and a tilt threshold of at most 90 degrees
C24_ThresholdsValid ==
    /\ Gt(det.accel_threshold, 0)
    /\ Gt(det.gyro_threshold, 0)
    /\ Gt(det.tilt_threshold, 0)
    /\ Le(det.tilt_threshold, MAX_TILT_ANGLE)

(***************************************************************************)
(* reset(): C25.                                                           *)
(***************************************************************************)
\* the detector with_config builds from the thresholds of d
FreshWith(d) ==
    [MotionDetector_new EXCEPT !.accel_threshold = d.accel_threshold,
                               !.gyro_threshold = d.gyro_threshold,
                               !.tilt_threshold = d.tilt_threshold]

\* C25: after reset() the classifier is, field for field, the classifier
\* freshly constructed with the same thresholds, and so returns what that one
\* returns for the next sample, whichever it is, and for every sample after it
C25_ResetIsFresh ==
    (cfg.call = "reset" /\ result = "None")
        => /\ det = FreshWith(det)
           /\ \A data \in Samples : detect_motion(det, data) = detect_motion(FreshWith(det), data)

\* reset() has acted on a detector with thresholds of its own, and changed it
C25_Witness ==
    /\ cfg.call = "reset"
    /\ cfg.changed
    /\ result = "None"
    /\ det.accel_threshold = MIN_VALID_ACCEL_THRESHOLD
    /\ det.tilt_threshold = MAX_TILT_ANGLE

(***************************************************************************)
(* The acceleration change: C26.                                           *)
(***************************************************************************)
\* C26: a classify call takes as acceleration change 0 when it is the first
\* since construction or reset(), and otherwise the distance between the
\* sample's magnitude and that of the sample of the call before; it leaves
\* the sample's magnitude as the baseline
C26_AccelDelta ==
    [][ fed' # NoSample
            => LET mag == calculate_magnitude(fed'.accel_x, fed'.accel_y, fed'.accel_z)
               IN  /\ accel_change(det, mag) = AccelDelta(track, fed')
                   /\ det'.prev_accel_magnitude = mag ]_vars

(***************************************************************************)
(* The periodic update: C30.                                               *)
(***************************************************************************)
\* C30: in every state but Error, update() leaves the state and the dwell
\* start as they are, clears nothing and advances ticks_since_entry by one;
\* in Thinking it draws (ticks / 10) mod 4 dots
C30_UpdateFrame ==
    [][ (DisplayCall /\ last'.call = "update" /\ disp.state.tag # "Error")
            => /\ disp'.state = disp.state
               /\ disp'.state_timer = disp.state_timer + 1
               /\ disp'.dizziness_start_time = disp.dizziness_start_time
               /\ disp'.clears = 0
               /\ disp.state = Thinking => disp'.dots = (disp'.state_timer \div 10) % 4 ]_vars

\* the 30th update in Thinking has drawn three dots
C30_Witness ==
    /\ last.call = "update"
    /\ last.from = Thinking
    /\ disp.state = Thinking
    /\ disp.state_timer = 30
    /\ disp.dots = 3

(***************************************************************************)
(* The display actor's loop: C28, C29.                                     *)
(***************************************************************************)
\* C28: the running consumer loop comes to invoke the periodic update, whether
\* or not any event arrives (unless the thread has ended)
C28_UpdatesWithoutEvents ==
    (consumer.thread = "running") ~> (consumer.updates > 0 \/ consumer.thread # "running")

\* C29: when handling an event fails, the consumer loop goes on (the thread
\* keeps running) and the display shows Error
C29_FailureKeepsLoop ==
    [][ (consumer.failure = "none" /\ consumer'.failure = "handle_event")
            => /\ consumer'.thread = "running"
               /\ disp'.state.tag = "Error" ]_vars

(***************************************************************************)
(* End to end: C27.                                                        *)
(***************************************************************************)
\* C27: while only gentle samples have come, the classified state is Still
\* and the display in Home; of the samples above both thresholds that follow,
\* the 12th is the first classified Shaking, and the display is in Dizzy from
\* that cycle on and in Home before it
C27_EndToEnd ==
    /\ (track.pat = "pre" /\ motion.polls > 0)
            => result = "Still" /\ disp.state = Main
    /\ track.pat = "run1"
            => /\ (result = "Shaking") = (track.k >= SHAKE_COUNT_THRESHOLD)
               /\ disp.state = IF track.k >= SHAKE_COUNT_THRESHOLD THEN Dizziness ELSE Main

(***************************************************************************)
(* Error and the events that come while it is shown: C31, C32.             *)
(***************************************************************************)
\* C31: in Error a motion event, whichever it is, leaves the state as it is;
\* only the timeout (reached by the update that follows the event in
\* DisplayActor::handle_event) leads out of it, to Welcome
C31_ErrorIgnoresMotion ==
    [][ (DisplayCall /\ last'.call = "motion" /\ disp.state.tag = "Error")
            => \/ disp'.state = disp.state
               \/ /\ disp'.state = Welcome
                  /\ disp.state_timer + 1 > ERROR_TIMEOUT_TICKS ]_vars

\* C32: a fault that comes while the display is in Error, whatever its
\* message, leaves ticks_since_entry, and so the timeout, as it is
C32_FaultKeepsTimeout ==
    [][ (DisplayCall /\ last'.call = "enter_error" /\ disp.state.tag = "Error")
            => /\ disp'.state.tag = "Error"
               /\ disp'.state_timer = disp.state_timer ]_vars

(***************************************************************************)
(* The wifi actor's commands, events and status: C33, C36, C37.            *)
(***************************************************************************)
\* C33: commands are executed one at a time in the order they were queued: the
\* events of a command all come before the events of any later command, and no
\* event of the self-check (cmd = 0) lies between two events of one command
C33_CommandsInOrder ==
    LET ev == wifi.emitted
    IN  \A i \in 1..Len(ev) : \A j \in 1..Len(ev) :
            (i < j /\ ev[i].cmd # 0 /\ ev[j].cmd # 0)
                => /\ ev[i].cmd <= ev[j].cmd
                   /\ ev[i].cmd = ev[j].cmd
                        => \A k \in i..j : ev[k].cmd = ev[i].cmd

\* two commands are handled, each with its events published, and a self-check has
\* published a status as well
C33_Witness ==
    /\ wifi.handled = 2
    /\ \E i \in 1..Len(wifi.emitted) : wifi.emitted[i].cmd = 1
    /\ \E i \in 1..Len(wifi.emitted) : wifi.emitted[i].cmd = 2
    /\ \E i \in 1..Len(wifi.emitted) :
            wifi.emitted[i].cmd = 0 /\ wifi.emitted[i].kind = "StatusUpdate"

\* the StatusUpdate events published so far
StatusUpdates(w) == SelectSeq(w.emitted, LAMBDA e : e.kind = "StatusUpdate")

\* C36: between the turns of the loop (a command or a self-check is finished), the
\* status of the last StatusUpdate published equals current_status
C36_LastStatusIsCurrent ==
    (wifi.thread = "running" /\ wifi.manager /\ StatusUpdates(wifi) # << >>)
        => StatusUpdates(wifi)[Len(StatusUpdates(wifi))].arg = wifi.current_status

\* the loop runs, the manager is alive and no command is queued
WifiIdleLoop == wifi.thread = "running" /\ wifi.manager /\ wifi.commands = << >>

\* the turns of the actor's thread are taken as long as it has one to take
SpecWifiFair == SpecWifi /\ WF_vars(\E op_ok \in BOOLEAN : WifiRun(op_ok))

\* C37: while the actor is idle, the self-check eventually brings current_status
\* in line with the link: Connected if it is up, Disconnected if it is down
C37_SelfCheckConverges ==
    WifiIdleLoop ~> (wifi.current_status = RestoredStatus(wifi) \/ ~WifiIdleLoop)

(***************************************************************************)
(* The counters and the cache of the classifier: C34, C35.                 *)
(***************************************************************************)
\* detect_motion is called with a sample that differs from the one before it
NewSample == which = "MotionDetector" /\ fed' # NoSample /\ fed' # fed

\* C34: a qualifying sample adds one to shake_count and zeroes stable_count; a
\* non-qualifying sample adds one to stable_count, and zeroes shake_count exactly
\* when stable_count has reached STABLE_COUNT_THRESHOLD with it
C34_Counters ==
    [][ NewSample
            => IF Qualifying(track, det, fed')
               THEN /\ det'.shake_count = det.shake_count + 1
                    /\ det'.stable_count = 0
               ELSE /\ det'.stable_count = det.stable_count + 1
                    /\ det'.shake_count =
                          IF det'.stable_count >= STABLE_COUNT_THRESHOLD
                          THEN 0 ELSE det.shake_count ]_vars

\* C35: a sample that differs from the one before it in some axis is not served
\* from the cache: the state machine runs (one of the counters advances) and the
\* magnitude baseline becomes the sample's
C35_CacheHitOnlyOnEqual ==
    [][ NewSample
            => /\ \/ det'.shake_count = det.shake_count + 1
                  \/ det'.stable_count = det.stable_count + 1
               /\ det'.prev_accel_magnitude =
                     calculate_magnitude(fed'.accel_x, fed'.accel_y, fed'.accel_z) ]_vars

(***************************************************************************)
(* The AudioBuffer as a bounded FIFO: C40.                                 *)
(***************************************************************************)
AudioSpecInit ==
    /\ BusIdle
    /\ DisplayIdle
    /\ DetectorIdle
    /\ MotionIdle
    /\ WifiIdle
    /\ ConsumerIdle
    /\ AudioIdle

SpecAudio == AudioSpecInit /\ [][AudioNext]_vars

\* the unread samples of the ring, oldest first
Unread(b) == [i \in 1..available_read(b) |-> b.buffer[(b.read_index + i - 1) % b.size]]

\* C40: after any sequence of write, read and clear an AudioBuffer of size n >= 1
\* is a bounded FIFO of capacity n - 1 given the same calls: the two counts add up
\* to n - 1, the unread samples are the FIFO's in its order (none overwritten),
\* write returned the number of samples the FIFO had room for, and read returned
\* the FIFO's oldest samples
C40_BoundedFifo ==
    audio.call # "none"
        => /\ available_read(audio.b) + available_write(audio.b) = audio.b.size - 1
           /\ available_write(audio.b) >= 0
           /\ Unread(audio.b) = audio.fifo
           /\ audio.call = "write" =>
                 /\ audio.ret <= Len(audio.arg)
                 /\ audio.fifo = fifo_write(SubSeq(audio.fifo, 1, Len(audio.fifo) - audio.ret),
                                            audio.arg, audio.b.size - 1)
           /\ audio.call = "read" =>
                 /\ audio.ret = Len(audio.data)
                 /\ audio.ret = Min(audio.len, audio.ret + Len(audio.fifo))
                 /\ Unread([audio.b EXCEPT
                               !.read_index = (@ + audio.b.size - audio.ret) % audio.b.size])
                       = audio.data \o audio.fifo

\* a write into a ring that has wrapped is cut short by the unread samples in front
\* of it, and leaves the ring full
C40_Witness ==
    /\ audio.call = "write"
    /\ 0 < audio.ret
    /\ audio.ret < Len(audio.arg)
    /\ audio.b.write_index < audio.b.read_index
    /\ available_write(audio.b) = 0

(***************************************************************************)
(* The dwell guard over long stays in Dizzy: C39.                          *)
(***************************************************************************)
\* C39: in the absolute-time build, in every state that has been Dizzy for the
\* minimum dwell or longer can_exit_dizziness is true
C39_GuardStaysOpen ==
    (build = "Display" /\ disp.state = Dizziness /\ DwellElapsed)
        => can_exit_dizziness(disp, now)

(***************************************************************************)
(* Shaken, then still: the sensor actor's heartbeat and the Dizzy dwell    *)
(* of both display implementations, C38.                                   *)
(***************************************************************************)
\* cycles of the sensor actor that are followed (the tick-counting dwell of ChatApp
\* comes to an end after some 61 heartbeats of 10 cycles each)
MaxStillPolls == 640

\* the longest run of shaking samples
MaxShake == 20

\* the device at rest, flat
AtRest == Sample(0, 0, 1000, 0, 0, 0)

\* the device shaken: rotating, at 1 g and at 2 g in turn
ShakeSamples == {Sample(0, 0, 1000, 0, 200, 0), Sample(0, 0, 2000, 0, 200, 0)}

RECURSIVE dispatch_actor(_, _)
\* the orchestrator's dispatch to the DisplayActor: a Motion event goes through
\* DisplayActorManager::on_motion to DisplayActor::handle_event
dispatch_actor(d, events) ==
    IF events = << >>
    THEN d
    ELSE dispatch_actor(IF Head(events).kind = "Motion" THEN handle_event(d, Head(events).payload) ELSE d,
                        Tail(events))

\* the orchestrator's turn in front of a DisplayActor: drain and dispatch; the
\* ChatApp is updated by handle_event alone
orchestrate_actor(d, b) == [d |-> dispatch_actor(d, b.queue), b |-> drain(b)]

StillInit ==
    /\ DisplayInit
    /\ DetectorIdle
    /\ BusIdle
    /\ MotionIdle
    /\ WifiIdle
    /\ ConsumerIdle
    /\ AudioIdle

\* the sample fits the scenario: the device is shaken until the display is in Dizzy
\* and for up to MaxShake samples in all, and from then on lies at rest
ShakenThenStill(data) ==
    IF track.pat \in {"pre", "run1"}
    THEN \/ /\ data \in ShakeSamples
            /\ track.prev_mag = -1 \/ Qualifying(track, det, data)
            /\ track.k < MaxShake
         \/ /\ data = AtRest
            /\ disp.state = Dizziness
    ELSE data = AtRest

\* one cycle: the actor reads, classifies and publishes; the orchestrator takes its turn
StillCycle(data) ==
    \E out \in {detect_motion(det, data)} :
    \E sent \in {IF should_send(motion, out.ret, now) THEN send(bus, "Motion", out.ret) ELSE bus} :
    \E turn \in {IF build = "ChatApp"
                 THEN orchestrate_actor(Fresh(disp), sent)
                 ELSE orchestrate(Fresh(disp), sent, now)} :
        /\ motion.thread = "running"
        /\ motion.polls < MaxStillPolls
        /\ ShakenThenStill(data)
        /\ det' = out.d
        /\ result' = out.ret
        /\ fed' = data
        /\ track' = Tracked(track, det, data, fed)
        /\ motion' = on_sample(motion, out.ret, now, bus.receiver)
        /\ bus' = turn.b
        /\ disp' = turn.d
        /\ Called("motion", out.ret)
        /\ now' = now + PollPeriod
        /\ UNCHANGED <<build, which, cfg, wifi, consumer, audioVars>>

StillNext ==
    \/ E2EStart
    \/ \E data \in ShakeSamples \cup {AtRest} : StillCycle(data)

SpecStill == StillInit /\ [][StillNext]_vars

\* the actor's loop and the orchestrator's loop keep running
SpecStillFair ==
    SpecStill /\ WF_vars(\E data \in ShakeSamples \cup {AtRest} : StillCycle(data))

====
